---- MODULE Spec2Model ----
(***************************************************************************)
(* Model of homeassistant/components/automation/config.py: validation of   *)
(* one automation rule (_async_validate_config_item and its helpers) and   *)
(* of a whole configuration document (async_validate_config).              *)
(*                                                                         *)
(* A coroutine runs without interruption between two awaits, so every      *)
(* action below is the code of one task from one suspension point to the   *)
(* next.  The awaited collaborators (blueprint store, trigger, condition   *)
(* and action validators) answer with an outcome the action draws with \E. *)
(*                                                                         *)
(* Two further components follow, each under a specification of its own:   *)
(* homeassistant/components/discord/notify.py (DiscordSpec), the calls of   *)
(* DiscordNotificationService.async_send_message on one service object,    *)
(* and homeassistant/components/wiz/config_flow.py (WizSpec), the steps of  *)
(* one WiZ config flow.                                                    *)
(***************************************************************************)
EXTENDS Integers, Sequences, FiniteSets, TLC

VARIABLES
    mode,       \* "strict": async_validate_config_item, "batch": async_validate_config
    input_config, \* the configuration document the batch call was given
    document,   \* the rule inputs of the call, in document order
    tasks,      \* one _async_validate_config_item coroutine per rule input
    finished,   \* indices of the tasks that ended, in completion order
    batch,      \* outcome of async_validate_config
    discord_bot,  \* DiscordNotificationService.discord_bot: a client, 0 before the first call
    clients,      \* the nextcord.Client objects created, with their logins and closes
    notify_calls, \* one async_send_message coroutine per notify call
    flow,         \* the fields of the WiZ ConfigFlow object
    progress,     \* the flow manager's view of the flow: source, current step, last result
    reached       \* the hosts whose bulb answered in this flow

automation_vars == <<mode, input_config, document, tasks, finished, batch>>

discord_vars == <<discord_bot, clients, notify_calls>>

wiz_vars == <<flow, progress, reached>>

vars == <<automation_vars, discord_vars, wiz_vars>>

\* Largest number of automation entries in a document.
MaxRules == 2

--------------------------------------------------------------------------
\* Python values

None == [type |-> "None", m |-> <<>>]

Mapping(m) == [type |-> "mapping", m |-> m]

Val(stage, v) == [stage |-> stage, v |-> v]

\* Key names (homeassistant.const / .const)
CONF_ID == "id"
CONF_ALIAS == "alias"
CONF_DESCRIPTION == "description"
CONF_TRIGGER == "trigger"
CONF_CONDITION == "condition"
CONF_ACTION == "action"
CONF_TRACE == "trace"
CONF_USE_BLUEPRINT == "use_blueprint"

\* isinstance(config, Mapping)
IsMapping(config) == config.type = "mapping"

Keys(config) == IF IsMapping(config) THEN DOMAIN config.m ELSE {}

\* Exception classes: BlueprintException derives from HomeAssistantError.
IsHomeAssistantError(exc) == exc \in {"HomeAssistantError", "BlueprintException"}

IsInvalid(exc) == exc = "Invalid"

--------------------------------------------------------------------------
\* The rule inputs the model validates

RuleValid == Mapping([id |-> Val("raw", "0600"),
                      alias |-> Val("raw", "Morning"),
                      trigger |-> Val("raw", "t1"),
                      action |-> Val("raw", "a1")])

RuleWithCondition == Mapping([id |-> Val("raw", "1700"),
                              trigger |-> Val("raw", "t2"),
                              condition |-> Val("raw", "c2"),
                              action |-> Val("raw", "a2")])

RuleBad == Mapping([alias |-> Val("raw", "Bad Rule")])

RuleBlueprint == Mapping([alias |-> Val("raw", "From blueprint"),
                          use_blueprint |-> Val("raw", "motion_light")])

\* A blueprint reference that also carries a trigger and an action of its
\* own.
RuleBlueprintFull == Mapping([use_blueprint |-> Val("raw", "motion_light"),
                              trigger |-> Val("raw", "t3"),
                              action |-> Val("raw", "a3")])

RuleString == [type |-> "str", m |-> <<>>]

RuleInt == [type |-> "int", m |-> <<>>]

RuleInputs == {RuleValid, RuleWithCondition, RuleBad, RuleBlueprint,
               RuleBlueprintFull, RuleString, RuleInt}

--------------------------------------------------------------------------
\* Results of the synchronous helpers: a value, or the exception that left them

Returned(value, log) == [exc |-> "", value |-> value, log |-> log]

Raised(exc, log) == [exc |-> exc, value |-> None, log |-> log]

\* A snapshot that is never taken: raw_config keeps its initial None.
dict_of_NoSnapshot(config) ==
    IF config.type = "int" THEN Raised("TypeError", <<>>)
    ELSE Raised("ValueError", <<>>)

\* dict(config): a copy of a mapping; ValueError for a string, TypeError for
\* a value that cannot be iterated.
dict_of(config) ==
    CASE config.type = "mapping" -> Returned(config, <<>>)
      [] config.type = "str" -> Raised("ValueError", <<>>)
      [] OTHER -> Raised("TypeError", <<>>)

\* class AutomationConfig(dict): a mapping with three attributes, which
\* start at their class defaults.
AutomationConfig(m) ==
    [m |-> m, raw_config |-> None, raw_blueprint_inputs |-> None,
     validation_failed |-> FALSE]

\* An item assignment that is lost.
SetItem_Lost(automation_config, key, value) == automation_config

\* automation_config[key] = value
SetItem(automation_config, key, value) ==
    [automation_config EXCEPT
        !.m = [k \in DOMAIN automation_config.m \cup {key} |->
                  IF k = key THEN value ELSE automation_config.m[k]]]

--------------------------------------------------------------------------
\* Structural schemas

\* The coercion the structural schema applies to a value of the rule: id,
\* alias and description are plain strings and stay as given, the other
\* values come back in their structural form.
Structural(key, v) ==
    IF key \in {CONF_ID, CONF_ALIAS, CONF_DESCRIPTION} THEN v
    ELSE Val("structural", v.v)

\* The keys PLATFORM_SCHEMA names (lines 59-69), with the script mode keys
\* make_script_schema adds.
SchemaKeys ==
    {CONF_ID, CONF_ALIAS, CONF_DESCRIPTION, CONF_TRACE, "initial_state",
     "hide_entity", CONF_TRIGGER, CONF_CONDITION, "variables",
     "trigger_variables", CONF_ACTION, "mode", "max", "max_exceeded"}

\* script.make_script_schema builds the schema with extra=vol.PREVENT_EXTRA:
\* a key the schema does not name is an error.
ExtraKeysAllowed == FALSE

\* PLATFORM_SCHEMA(config).  trigger and action are vol.Required, trace has
\* a default.  ext_ok is the verdict of the validators the schema delegates
\* to (cv.string, cv.TRIGGER_SCHEMA, ..., script.make_script_schema).
PLATFORM_SCHEMA(config, ext_ok) ==
    IF ~IsMapping(config) THEN Raised("Invalid", <<>>)
    ELSE IF ~ExtraKeysAllowed /\ ~(Keys(config) \subseteq SchemaKeys)
         THEN Raised("Invalid", <<>>)
    ELSE IF CONF_TRIGGER \notin Keys(config) \/ CONF_ACTION \notin Keys(config)
         THEN Raised("Invalid", <<>>)
    ELSE IF ~ext_ok THEN Raised("Invalid", <<>>)
    ELSE Returned(
            Mapping([k \in Keys(config) \cup {CONF_TRACE} |->
                       IF k \in Keys(config) THEN Structural(k, config.m[k])
                       ELSE Val("structural", "{}")]),
            <<>>)

\* _MINIMAL_PLATFORM_SCHEMA(config): every key is optional and
\* extra=vol.ALLOW_EXTRA keeps the keys the schema does not name.
_MINIMAL_PLATFORM_SCHEMA(config) ==
    IF ~IsMapping(config) THEN Raised("Invalid", <<>>)
    ELSE Returned(config, <<>>)

--------------------------------------------------------------------------
\* Diagnostics

\* get_automation_name with the tests of lines 116 and 118 exchanged: the id
\* is preferred to the alias.
get_automation_name_IdFirst(config) ==
    IF IsMapping(config) /\ CONF_ID \in Keys(config)
        THEN [kind |-> "id", v |-> config.m[CONF_ID].v]
    ELSE IF IsMapping(config) /\ CONF_ALIAS \in Keys(config)
        THEN [kind |-> "alias", v |-> config.m[CONF_ALIAS].v]
    ELSE [kind |-> "unnamed", v |-> "Unnamed automation"]

get_automation_name(config) ==
    IF IsMapping(config) /\ CONF_ALIAS \in Keys(config)
        THEN [kind |-> "alias", v |-> config.m[CONF_ALIAS].v]
    ELSE IF IsMapping(config) /\ CONF_ID \in Keys(config)
        THEN [kind |-> "id", v |-> config.m[CONF_ID].v]
    ELSE [kind |-> "unnamed", v |-> "Unnamed automation"]

NoName == [kind |-> "none", v |-> ""]

LogEntry(name, text) == [name |-> name, text |-> text]

log_invalid_automation(err, automation_name, problem, config, warn_on_errors) ==
    IF ~warn_on_errors THEN <<>>
    ELSE <<LogEntry(automation_name, problem)>>

--------------------------------------------------------------------------
\* Blueprint collaborators

\* blueprint.is_blueprint_instance_config(config)
is_blueprint_instance_config(config) ==
    IsMapping(config) /\ CONF_USE_BLUEPRINT \in Keys(config)

\* The BlueprintInputs object blueprints.async_inputs_from_config returns:
\* config_with_inputs is the caller's blueprint reference with its inputs
\* section validated, taken before any substitution.
async_inputs_from_config(config) ==
    [name |-> config.m[CONF_USE_BLUEPRINT].v,
     config_with_inputs |->
        Mapping([k \in Keys(config) |->
                   IF k = CONF_USE_BLUEPRINT
                   THEN Val("with_inputs", config.m[k].v)
                   ELSE config.m[k]])]

\* Bodies a stored blueprint can have: a complete rule, and one that lacks
\* its action.
BlueprintBodies ==
    {[alias |-> Val("raw", "Blueprint rule"),
      trigger |-> Val("raw", "bt"), action |-> Val("raw", "ba")],
     [alias |-> Val("raw", "Blueprint rule"), trigger |-> Val("raw", "bt")]}

\* blueprint_inputs.async_substitute(): the blueprint body with the inputs
\* substituted, overlaid with the caller's own keys, without the blueprint
\* reference key.
async_substitute(blueprint_inputs, body) ==
    LET own == blueprint_inputs.config_with_inputs.m
        ks == (DOMAIN body \cup DOMAIN own) \ {CONF_USE_BLUEPRINT}
    IN Mapping([k \in ks |-> IF k \in DOMAIN own THEN own[k] ELSE body[k]])

\* What the section validators return for a structural value.
Validated(v) == Val("validated", v.v)

--------------------------------------------------------------------------
\* Error handlers

handle_blueprint_exception(err, warn_on_errors, raise_on_errors) ==
    LET log == IF warn_on_errors
               THEN <<LogEntry(NoName, "Failed to generate automation from blueprint")>>
               ELSE <<>>
    IN IF raise_on_errors THEN Raised(err, log) ELSE Returned(None, log)

handle_undefined_substitution(err, blueprint_inputs, warn_on_errors, raise_on_errors) ==
    LET log == IF warn_on_errors
               THEN <<LogEntry(NoName, "Blueprint failed to generate automation with inputs")>>
               ELSE <<>>
    IN IF raise_on_errors THEN Raised("HomeAssistantError", log)
       ELSE Returned(None, log)

\* The body reads the name config, which is neither a parameter nor a local
\* of _minimal_config nor a global of the module: evaluating the argument of
\* _MINIMAL_PLATFORM_SCHEMA raises NameError before the schema is called.
_minimal_config(raw_blueprint_inputs, raw_config) ==
    Raised("NameError", <<>>)

handle_invalid_configuration(err, automation_name, problem, config, raise_on_errors, warn_on_errors, raw_blueprint_inputs, raw_config) ==
    LET log == log_invalid_automation(err, automation_name, problem, config,
                                      warn_on_errors)
        minimal == _minimal_config(raw_blueprint_inputs, raw_config)
    IN IF raise_on_errors THEN Raised(err, log)
       ELSE [minimal EXCEPT !.log = log \o minimal.log]

\* handle_section_error without the re-raise of line 250.
handle_section_error_NeverRaises(err, automation_name, problem, validated_config, raise_on_errors, automation_config) ==
    Returned([automation_config EXCEPT !.validation_failed = TRUE],
             log_invalid_automation(err, automation_name, problem,
                                    validated_config, TRUE))

\* handle_section_error that also takes the sections out of the entity it
\* flags.
handle_section_error_DropsSections(err, automation_name, problem, validated_config, raise_on_errors, automation_config) ==
    LET log == log_invalid_automation(err, automation_name, problem,
                                      validated_config, TRUE)
        kept == DOMAIN automation_config.m \ {CONF_TRIGGER, CONF_CONDITION, CONF_ACTION}
    IN IF raise_on_errors THEN Raised(err, log)
       ELSE Returned([automation_config EXCEPT
                         !.validation_failed = TRUE,
                         !.m = [k \in kept |-> automation_config.m[k]]], log)

\* handle_section_error without the assignment of line 251.
handle_section_error_LeavesUnflagged(err, automation_name, problem, validated_config, raise_on_errors, automation_config) ==
    LET log == log_invalid_automation(err, automation_name, problem,
                                      validated_config, TRUE)
    IN IF raise_on_errors THEN Raised(err, log)
       ELSE Returned(automation_config, log)

\* handle_section_error that logs only when it does not re-raise, the way the
\* blueprint and schema handlers follow warn_on_errors.
handle_section_error_LogsWhenWarned(err, automation_name, problem, validated_config, raise_on_errors, automation_config) ==
    LET log == log_invalid_automation(err, automation_name, problem,
                                      validated_config, ~raise_on_errors)
    IN IF raise_on_errors THEN Raised(err, log)
       ELSE Returned([automation_config EXCEPT !.validation_failed = TRUE], log)

\* Logs whatever warn_on_errors says (the literal True), then re-raises or
\* flags the entity.
handle_section_error(err, automation_name, problem, validated_config, raise_on_errors, automation_config) ==
    LET log == log_invalid_automation(err, automation_name, problem,
                                      validated_config, TRUE)
    IN IF raise_on_errors THEN Raised(err, log)
       ELSE Returned([automation_config EXCEPT !.validation_failed = TRUE], log)

--------------------------------------------------------------------------
\* One validation task

NoEntity == AutomationConfig(<<>>)

\* A stage of the pipeline that failed, with the exception it failed with.
Failure(stage, exc) == [stage |-> stage, exc |-> exc]

\* The policy of the two entry points.
raise_on_errors(m) == m = "strict"

warn_on_errors(m) == m = "batch"

NewTask(config) ==
    [pc |-> "start",
     config |-> config,
     raw_config |-> None,
     raw_blueprint_inputs |-> None,
     uses_blueprint |-> FALSE,
     automation_name |-> NoName,
     validated_config |-> None,
     automation_config |-> NoEntity,
     log |-> <<>>,
     calls |-> <<>>,
     failures |-> <<>>,
     result |-> [kind |-> "pending", exc |-> "", entity |-> NoEntity]]

\* async_validate_config_item: returns what _async_validate_config_item
\* returns and lets every exception through.
async_validate_config_item(kind, exc, entity) ==
    [kind |-> kind, exc |-> exc, entity |-> entity]

\* _try_async_validate_config_item: vol.Invalid and HomeAssistantError
\* become None, any other exception propagates.
_try_async_validate_config_item(kind, exc, entity) ==
    IF kind = "raise" /\ (IsInvalid(exc) \/ IsHomeAssistantError(exc))
    THEN [kind |-> "none", exc |-> "", entity |-> NoEntity]
    ELSE [kind |-> kind, exc |-> exc, entity |-> entity]

\* The task ends: _async_validate_config_item returned entity or raised exc.
Done(t, m, kind, exc, entity) ==
    [t EXCEPT !.pc = "done",
              !.result = IF m = "strict"
                         THEN async_validate_config_item(kind, exc, entity)
                         ELSE _try_async_validate_config_item(kind, exc, entity)]

\* validate_config_sections up to its first await.
EnterSections(t) ==
    [t EXCEPT !.pc = "await_trigger",
              !.calls = @ \o <<"async_validate_trigger_config">>]

\* AfterBlueprint attaching to the entity a snapshot of the rule as
\* handle_blueprint returned it, not the snapshot of line 87.
AfterBlueprint_SnapshotsResolvedRule(t, m, ext_ok) ==
    LET schema == PLATFORM_SCHEMA(t.config, ext_ok)
    IN IF schema.exc # ""
       THEN LET h == handle_invalid_configuration(
                        schema.exc, t.automation_name, "could not be validated",
                        t.config, raise_on_errors(m), warn_on_errors(m),
                        t.raw_blueprint_inputs, t.raw_config)
                u == [t EXCEPT !.log = @ \o h.log,
                               !.failures = @ \o <<Failure("schema", schema.exc)>>]
            IN IF h.exc # "" THEN Done(u, m, "raise", h.exc, NoEntity)
               ELSE Done(u, m, "entity", "", h.value)
       ELSE EnterSections(
               [t EXCEPT !.validated_config = schema.value,
                         !.automation_config =
                            [AutomationConfig(schema.value.m) EXCEPT
                                !.raw_blueprint_inputs = t.raw_blueprint_inputs,
                                !.raw_config = t.config]])

\* _async_validate_config_item from the return of handle_blueprint (line 95)
\* to the first await of validate_config_sections.
AfterBlueprint(t, m, ext_ok) ==
    LET schema == PLATFORM_SCHEMA(t.config, ext_ok)
    IN IF schema.exc # ""
       THEN LET h == handle_invalid_configuration(
                        schema.exc, t.automation_name, "could not be validated",
                        t.config, raise_on_errors(m), warn_on_errors(m),
                        t.raw_blueprint_inputs, t.raw_config)
                u == [t EXCEPT !.log = @ \o h.log,
                               !.failures = @ \o <<Failure("schema", schema.exc)>>]
            IN IF h.exc # "" THEN Done(u, m, "raise", h.exc, NoEntity)
               ELSE Done(u, m, "entity", "", h.value)
       ELSE EnterSections(
               [t EXCEPT !.validated_config = schema.value,
                         !.automation_config =
                            [AutomationConfig(schema.value.m) EXCEPT
                                !.raw_blueprint_inputs = t.raw_blueprint_inputs,
                                !.raw_config = t.raw_config]])

\* StartItem with the assignment of line 128 moved before the test of line
\* 127: every rule is marked as coming from a blueprint.
StartItem_MarksEveryRule(t, m, ext_ok) ==
    LET snapshot == dict_of(t.config)
        u == [t EXCEPT !.raw_config = IF snapshot.exc = "" THEN snapshot.value
                                      ELSE None,
                       !.automation_name = get_automation_name(t.config),
                       !.uses_blueprint = TRUE]
    IN IF snapshot.exc = "TypeError"
       THEN Done([t EXCEPT !.failures = @ \o <<Failure("snapshot", snapshot.exc)>>],
                 m, "raise", "TypeError", NoEntity)
       ELSE IF is_blueprint_instance_config(t.config)
       THEN [u EXCEPT !.pc = "await_blueprint",
                      !.calls = @ \o <<"async_inputs_from_config">>]
       ELSE AfterBlueprint(u, m, ext_ok)

\* The first run of the task: lines 83-89 and handle_blueprint up to the
\* await of the blueprint store, or, for a rule that is no blueprint
\* reference, on to the first await of validate_config_sections.
StartItem(t, m, ext_ok) ==
    LET snapshot == dict_of(t.config)
        u == [t EXCEPT !.raw_config = IF snapshot.exc = "" THEN snapshot.value
                                      ELSE None,
                       !.automation_name = get_automation_name(t.config)]
    IN IF snapshot.exc = "TypeError"
       THEN Done([t EXCEPT !.failures = @ \o <<Failure("snapshot", snapshot.exc)>>],
                 m, "raise", "TypeError", NoEntity)
       ELSE IF is_blueprint_instance_config(t.config)
       THEN [u EXCEPT !.pc = "await_blueprint",
                      !.uses_blueprint = TRUE,
                      !.calls = @ \o <<"async_inputs_from_config">>]
       ELSE AfterBlueprint(u, m, ext_ok)

\* handle_blueprint from the return of the blueprint store (line 131) to its
\* return, then _async_validate_config_item as in AfterBlueprint.  fetch_exc
\* is the exception of the store ("" for none); substitution is the outcome
\* of async_substitute: an exception or the body of the blueprint.
ResumeBlueprint(t, m, fetch_exc, substitution, ext_ok) ==
    IF fetch_exc # ""
    THEN LET h == handle_blueprint_exception(fetch_exc, warn_on_errors(m),
                                             raise_on_errors(m))
             u == [t EXCEPT !.log = @ \o h.log,
                            !.failures = @ \o <<Failure("blueprint_fetch", fetch_exc)>>,
                            !.raw_blueprint_inputs = None]
         IN IF h.exc # "" THEN Done(u, m, "raise", h.exc, NoEntity)
            ELSE AfterBlueprint(u, m, ext_ok)
    ELSE LET blueprint_inputs == async_inputs_from_config(t.config)
             u == [t EXCEPT !.raw_blueprint_inputs =
                               blueprint_inputs.config_with_inputs,
                            !.calls = @ \o <<"async_substitute">>]
         IN IF substitution.exc # ""
            THEN LET h == handle_undefined_substitution(
                             substitution.exc, blueprint_inputs,
                             warn_on_errors(m), raise_on_errors(m))
                     v == [u EXCEPT !.log = @ \o h.log,
                                    !.failures = @ \o <<Failure("substitution", substitution.exc)>>]
                 IN IF h.exc # "" THEN Done(v, m, "raise", h.exc, NoEntity)
                    ELSE AfterBlueprint(v, m, ext_ok)
            ELSE AfterBlueprint(
                    [u EXCEPT !.config =
                        \* line 140 binds a local raw_config of
                        \* handle_blueprint, which nothing reads
                        async_substitute(blueprint_inputs, substitution.body)],
                    m, ext_ok)

Problem(section) ==
    CASE section = CONF_TRIGGER -> "failed to setup triggers"
      [] section = CONF_CONDITION -> "failed to setup conditions"
      [] OTHER -> "failed to setup actions"

ValidatorOf(section) ==
    CASE section = CONF_TRIGGER -> "async_validate_trigger_config"
      [] section = CONF_CONDITION -> "async_validate_conditions_config"
      [] OTHER -> "async_validate_actions_config"

AwaitOf(section) ==
    CASE section = CONF_TRIGGER -> "await_trigger"
      [] section = CONF_CONDITION -> "await_condition"
      [] OTHER -> "await_action"

\* The order of the sections without the test of line 218: the trigger is
\* always followed by the action.
NextSection_SkipsCondition(section, validated_config) ==
    IF section = CONF_TRIGGER THEN CONF_ACTION
    ELSE IF section = CONF_CONDITION THEN CONF_ACTION
    ELSE "return"

\* The section validate_config_sections awaits after section succeeded.
NextSection(section, validated_config) ==
    IF section = CONF_TRIGGER
    THEN IF CONF_CONDITION \in Keys(validated_config) THEN CONF_CONDITION
         ELSE CONF_ACTION
    ELSE IF section = CONF_CONDITION THEN CONF_ACTION
    ELSE "return"

\* validate_config_sections without the return statements of lines 214, 226
\* and 237: after a failure that is not re-raised the next section is still
\* validated.
validate_config_sections_KeepsGoing(t, m, section, exc) ==
    LET h == handle_section_error(exc, t.automation_name, Problem(section),
                   t.validated_config, raise_on_errors(m), t.automation_config)
        failed == exc # ""
        ac == IF failed THEN [t.automation_config EXCEPT !.validation_failed = TRUE]
              ELSE SetItem(t.automation_config, section,
                           Validated(t.validated_config.m[section]))
        u == [t EXCEPT !.automation_config = ac,
                       !.log = IF failed THEN @ \o h.log ELSE @,
                       !.failures = IF failed THEN @ \o <<Failure(section, exc)>> ELSE @]
        next == NextSection(section, t.validated_config)
    IN IF failed /\ raise_on_errors(m) THEN Done(u, m, "raise", h.exc, NoEntity)
       ELSE IF next = "return" THEN Done(u, m, "entity", "", ac)
       ELSE [u EXCEPT !.pc = AwaitOf(next),
                      !.calls = @ \o <<ValidatorOf(next)>>]

\* validate_config_sections from the return of the validator of section to
\* the next await or to its return.  exc is the validator's exception, ""
\* when it returned.
validate_config_sections(t, m, section, exc) ==
    IF exc # ""
    THEN LET h == handle_section_error(exc, t.automation_name, Problem(section),
                        t.validated_config, raise_on_errors(m),
                        t.automation_config)
             u == [t EXCEPT !.log = @ \o h.log,
                            !.failures = @ \o <<Failure(section, exc)>>]
         IN IF h.exc # "" THEN Done(u, m, "raise", h.exc, NoEntity)
            ELSE Done([u EXCEPT !.automation_config = h.value],
                      m, "entity", "", h.value)
    ELSE LET ac == SetItem(t.automation_config, section,
                           Validated(t.validated_config.m[section]))
             next == NextSection(section, t.validated_config)
             u == [t EXCEPT !.automation_config = ac]
         IN IF next = "return" THEN Done(u, m, "entity", "", ac)
            ELSE [u EXCEPT !.pc = AwaitOf(next),
                           !.calls = @ \o <<ValidatorOf(next)>>]

--------------------------------------------------------------------------
\* The batch: async_validate_config

\* A gather that hands the results back in completion order.
gather_CompletionOrder(ts, order) == [k \in 1..Len(order) |-> ts[order[k]].result]

\* asyncio.gather: the results of the awaitables in the order they were
\* passed, whatever the order they completed in.
gather(ts, order) == [i \in 1..Len(ts) |-> ts[i].result]

IsNotNone(r) == r.kind # "none"

\* A filter that also drops the entities flagged validation_failed.
FilterNotNone_DropsFailed(results) ==
    LET kept == SelectSeq(results,
                   LAMBDA r : IsNotNone(r) /\ ~r.entity.validation_failed)
    IN [k \in 1..Len(kept) |-> kept[k].entity]

\* list(filter(lambda x: x is not None, results))
FilterNotNone(results) ==
    LET kept == SelectSeq(results, IsNotNone)
    IN [k \in 1..Len(kept) |-> kept[k].entity]

\* DOMAIN of .const: the key of the integration in a document.
AUTOMATION_DOMAIN == "automation"

\* The keys of a document that belong to the domain: the domain itself and
\* the domain followed by a label ("automation 2").
extract_domain_configs(conf, domain) ==
    {k \in DOMAIN conf : k = domain \/ k = domain \o " 2"}

\* config_per_platform: the entries of every key of the domain, in the
\* order of the keys.
config_per_platform(conf, domain) ==
    (IF domain \in DOMAIN conf THEN conf[domain] ELSE <<>>)
        \o (IF domain \o " 2" \in DOMAIN conf THEN conf[domain \o " 2"] ELSE <<>>)

\* config_without_domain: a new document without the keys of the domain.
config_without_domain(conf, domain) ==
    [k \in DOMAIN conf \ extract_domain_configs(conf, domain) |-> conf[k]]

\* Lines 296-301 in place: the sequence is stored in the caller's document.
StoreAutomations_InPlace(conf, automations) ==
    LET changed == [k \in DOMAIN conf \cup {AUTOMATION_DOMAIN} |->
                       IF k = AUTOMATION_DOMAIN THEN automations ELSE conf[k]]
    IN [input |-> changed, output |-> changed]

\* Lines 296-301: the validated sequence goes under the domain key of a
\* copy of the document without the domain.  input is the caller's
\* document after the call, output the document returned.
StoreAutomations(conf, automations) ==
    LET copy == config_without_domain(conf, AUTOMATION_DOMAIN)
    IN [input |-> conf,
        output |-> [k \in DOMAIN copy \cup {AUTOMATION_DOMAIN} |->
                       IF k = AUTOMATION_DOMAIN THEN automations ELSE copy[k]]]

\* The entries of another integration in the document.
OtherEntries == <<Mapping([platform |-> Val("raw", "hue")])>>

\* A document with the rules doc: all under the domain key, or (split) the
\* last of them under a second, labelled key of the domain.  Validation
\* reads the rules through config_per_platform only, so the layout is fixed
\* by the number of rules: two rules or more are split over the two keys.
BuildConfig(doc, split) ==
    IF split
    THEN [k \in {"automation", "automation 2", "light"} |->
            CASE k = "automation" -> SubSeq(doc, 1, Len(doc) - 1)
              [] k = "automation 2" -> SubSeq(doc, Len(doc), Len(doc))
              [] OTHER -> OtherEntries]
    ELSE [k \in {"automation", "light"} |->
            IF k = "automation" THEN doc ELSE OtherEntries]

\* The call of async_validate_config_item is given no document.
NoConfig == [k \in {} |-> <<>>]

\* The outcomes the substitution can have.
SubstitutionOutcomes ==
    {[exc |-> "UndefinedSubstitution", body |-> <<>>]}
        \cup {[exc |-> "", body |-> b] : b \in BlueprintBodies}

Documents(n) == UNION {[1..k -> RuleInputs] : k \in 0..n}

\* No validation is under way.
AutomationIdle ==
    /\ mode = "batch"
    /\ document = <<>>
    /\ input_config = NoConfig
    /\ tasks = <<>>
    /\ finished = <<>>
    /\ batch = [kind |-> "none", exc |-> "", automations |-> <<>>,
                config |-> NoConfig]

\* The notify service has not been called.
DiscordIdle ==
    /\ discord_bot = 0
    /\ clients = <<>>
    /\ notify_calls = <<>>

\* No config flow exists.
WizIdle ==
    /\ flow = <<>>
    /\ progress = <<>>
    /\ reached = {}

Init ==
    /\ DiscordIdle
    /\ WizIdle
    /\ mode \in {"strict", "batch"}
    /\ document \in IF mode = "strict" THEN [1..1 -> RuleInputs]
                    ELSE Documents(MaxRules)
    /\ input_config = IF mode = "strict" THEN NoConfig
                      ELSE BuildConfig(document, Len(document) >= 2)
    /\ tasks = [i \in 1..Len(document) |-> NewTask(document[i])]
    /\ finished = <<>>
    /\ batch = [kind |-> IF mode = "batch" THEN "pending" ELSE "none",
                exc |-> "", automations |-> <<>>, config |-> NoConfig]

\* A step in which the tasks share the validation_failed flag: the flag task
\* i sets shows on the entity every other task is building.
Step_SharedFlag(i, t) ==
    /\ tasks' = [j \in DOMAIN tasks |->
                    IF j = i THEN t
                    ELSE IF t.automation_config.validation_failed
                    THEN [tasks[j] EXCEPT !.automation_config.validation_failed = TRUE]
                    ELSE tasks[j]]
    /\ finished' = IF t.pc = "done" THEN Append(finished, i) ELSE finished
    /\ UNCHANGED <<mode, input_config, document, batch>>
    /\ UNCHANGED <<discord_vars, wiz_vars>>

Step(i, t) ==
    /\ tasks' = [tasks EXCEPT ![i] = t]
    /\ finished' = IF t.pc = "done" THEN Append(finished, i) ELSE finished
    /\ UNCHANGED <<mode, input_config, document, batch>>
    /\ UNCHANGED <<discord_vars, wiz_vars>>

Start(i) ==
    /\ tasks[i].pc = "start"
    /\ \E ext_ok \in BOOLEAN : Step(i, StartItem(tasks[i], mode, ext_ok))

BlueprintReturn(i) ==
    /\ tasks[i].pc = "await_blueprint"
    /\ \E fetch_exc \in {"", "BlueprintException"},
          substitution \in SubstitutionOutcomes, ext_ok \in BOOLEAN :
          Step(i, ResumeBlueprint(tasks[i], mode, fetch_exc, substitution, ext_ok))

TriggerReturn(i) ==
    /\ tasks[i].pc = "await_trigger"
    /\ \E exc \in {"", "Invalid", "HomeAssistantError"} :
          Step(i, validate_config_sections(tasks[i], mode, CONF_TRIGGER, exc))

ConditionReturn(i) ==
    /\ tasks[i].pc = "await_condition"
    /\ \E exc \in {"", "Invalid", "HomeAssistantError"} :
          Step(i, validate_config_sections(tasks[i], mode, CONF_CONDITION, exc))

ActionReturn(i) ==
    /\ tasks[i].pc = "await_action"
    /\ \E exc \in {"", "Invalid", "HomeAssistantError"} :
          Step(i, validate_config_sections(tasks[i], mode, CONF_ACTION, exc))

\* gather re-raises the first exception a task raised, as soon as the
\* awaiting coroutine runs again; the other tasks are not cancelled.
BatchRaise ==
    /\ batch.kind = "pending"
    /\ \E k \in 1..Len(finished) :
          /\ tasks[finished[k]].result.kind = "raise"
          /\ \A j \in 1..(k - 1) : tasks[finished[j]].result.kind # "raise"
          /\ batch' = [kind |-> "raise", exc |-> tasks[finished[k]].result.exc,
                       automations |-> <<>>, config |-> NoConfig]
    /\ UNCHANGED <<mode, input_config, document, tasks, finished>>
    /\ UNCHANGED <<discord_vars, wiz_vars>>

\* Every task returned: lines 284-301.
BatchReturn ==
    /\ batch.kind = "pending"
    /\ \A i \in 1..Len(tasks) : tasks[i].result.kind \in {"entity", "none"}
    /\ LET automations == FilterNotNone(gather(tasks, finished))
           stored == StoreAutomations(input_config, automations)
       IN /\ batch' = [kind |-> "return", exc |-> "",
                       automations |-> automations, config |-> stored.output]
          /\ input_config' = stored.input
    /\ UNCHANGED <<mode, document, tasks, finished>>
    /\ UNCHANGED <<discord_vars, wiz_vars>>

Next ==
    \/ \E i \in 1..Len(tasks) : Start(i)
    \/ \E i \in 1..Len(tasks) : BlueprintReturn(i)
    \/ \E i \in 1..Len(tasks) : TriggerReturn(i)
    \/ \E i \in 1..Len(tasks) : ConditionReturn(i)
    \/ \E i \in 1..Len(tasks) : ActionReturn(i)
    \/ BatchRaise
    \/ BatchReturn

Spec == Init /\ [][Next]_vars

--------------------------------------------------------------------------
\* Vocabulary of the properties

TaskIds == 1..Len(tasks)

Ended(i) == tasks[i].pc = "done"

ReturnedEntity(i) == tasks[i].result.kind = "entity"

Sections == {CONF_TRIGGER, CONF_CONDITION, CONF_ACTION}

MinimalKeys == {CONF_ID, CONF_ALIAS, CONF_DESCRIPTION}

FailedStages(i) == {tasks[i].failures[k].stage : k \in 1..Len(tasks[i].failures)}

\* The exception strict validation raises for a failed stage: the stage's
\* own exception, wrapped in HomeAssistantError for a substitution.
ErrorRaisedFor(failure) ==
    IF failure.stage = "substitution" THEN "HomeAssistantError" ELSE failure.exc

--------------------------------------------------------------------------
\* C1: lenient single-rule validation (_try_async_validate_config_item)
\* never raises: whatever the rule input and the outcomes of the blueprint
\* store, the structural schema and the section validators, the call ends
\* with an entity or with none.
C1_LenientNeverRaises ==
    mode = "batch" =>
        \A i \in TaskIds : tasks[i].result.kind \in {"pending", "entity", "none"}

\* C2: strict validation raises on any failure: when a stage failed, the
\* call raised the error of the first (and only) failing stage and returned
\* no entity; an entity it returns is never flagged validation_failed.
C2_StrictRaisesOnFailure ==
    mode = "strict" =>
        \A i \in TaskIds :
            Ended(i) =>
                /\ tasks[i].failures # <<>> =>
                      /\ tasks[i].result.kind = "raise"
                      /\ Len(tasks[i].failures) = 1
                      /\ tasks[i].result.exc = ErrorRaisedFor(tasks[i].failures[1])
                /\ tasks[i].failures = <<>> => ReturnedEntity(i)
                /\ ReturnedEntity(i) => ~tasks[i].result.entity.validation_failed

\* A strict call that raised the error of its action validator, after the
\* trigger validator had succeeded.
C2_Witness ==
    /\ mode = "strict"
    /\ \E i \in TaskIds :
          /\ Ended(i)
          /\ tasks[i].result.kind = "raise"
          /\ tasks[i].failures = <<Failure(CONF_ACTION, "Invalid")>>

\* C3: for a rule that is no blueprint reference and fails the structural
\* schema, lenient validation returns an entity flagged validation_failed
\* whose mapping is the minimal schema applied to the rule, with keys among
\* id, alias and description, and whose raw_config is the snapshot of the
\* input.
C3_SchemaFailureGivesMinimalEntity ==
    mode = "batch" =>
        \A i \in TaskIds :
            (/\ Ended(i)
             /\ IsMapping(document[i])
             /\ ~is_blueprint_instance_config(document[i])
             /\ "schema" \in FailedStages(i)) =>
                /\ ReturnedEntity(i)
                /\ tasks[i].result.entity.validation_failed
                /\ tasks[i].result.entity.m = _MINIMAL_PLATFORM_SCHEMA(document[i]).value.m
                /\ tasks[i].result.entity.raw_config = document[i]

C5_StrictSuccessHoldsValidatedSections ==
    mode = "strict" =>
        \A i \in TaskIds :
            (/\ Ended(i)
             /\ ~is_blueprint_instance_config(document[i])
             /\ tasks[i].failures = <<>>) =>
                LET e == tasks[i].result.entity
                    vc == tasks[i].validated_config.m
                IN /\ ReturnedEntity(i)
                   /\ ~e.validation_failed
                   /\ \A k \in Sections \cap Keys(document[i]) :
                         /\ k \in DOMAIN e.m
                         /\ e.m[k] = Validated(vc[k])
                         /\ e.m[k] # vc[k]
                   /\ {CONF_TRIGGER, CONF_ACTION} \subseteq DOMAIN e.m

\* A strict call on a rule with a condition returned after all three
\* validators succeeded.
C5_Witness ==
    /\ mode = "strict"
    /\ \E i \in TaskIds :
          /\ Ended(i)
          /\ tasks[i].failures = <<>>
          /\ ReturnedEntity(i)
          /\ CONF_CONDITION \in Keys(document[i])
          /\ Len(tasks[i].calls) = 3

--------------------------------------------------------------------------
\* Vocabulary of the batch properties

\* The entities of the tasks that returned one, in document order.
RECURSIVE EntitiesFrom(_)
EntitiesFrom(i) ==
    IF i > Len(tasks) THEN <<>>
    ELSE IF ReturnedEntity(i) THEN <<tasks[i].result.entity>> \o EntitiesFrom(i + 1)
    ELSE EntitiesFrom(i + 1)

AllEnded == \A i \in TaskIds : Ended(i)

\* C6: in batch validation an entry whose validation raises despite the
\* lenient policy is dropped alone: the batch call still returns, with the
\* entities of the other entries.
C6_RaisingEntryDroppedAlone ==
    (mode = "batch" /\ AllEnded /\ batch.kind # "pending") =>
        /\ batch.kind = "return"
        /\ batch.automations = EntitiesFrom(1)

\* C7 as stated: no element of the automation sequence of a batch result is
\* flagged validation_failed, and the sequence is as long as the number of
\* entries that validated without failure.
C7_NoFailedEntityInSequence ==
    batch.kind = "return" =>
        /\ \A k \in 1..Len(batch.automations) :
              ~batch.automations[k].validation_failed
        /\ Len(batch.automations) =
              Cardinality({i \in TaskIds : ReturnedEntity(i) /\ tasks[i].failures = <<>>})

\* C7 (amended): the automation sequence of a batch result holds one
\* element for every entry whose validation returned an entity, the
\* entities flagged validation_failed by a section failure included; only
\* entries whose validation returned none are absent.
C7_SequenceHoldsEveryReturnedEntity ==
    batch.kind = "return" =>
        /\ Len(batch.automations) = Cardinality({i \in TaskIds : ReturnedEntity(i)})
        /\ \A i \in TaskIds :
              ReturnedEntity(i) =>
                 \E k \in 1..Len(batch.automations) :
                    batch.automations[k] = tasks[i].result.entity
        /\ \A k \in 1..Len(batch.automations) :
              \E i \in TaskIds :
                 ReturnedEntity(i) /\ batch.automations[k] = tasks[i].result.entity

\* A batch of two rules returned with the second one flagged by a section
\* failure and still in the sequence.
C7_Witness ==
    /\ batch.kind = "return"
    /\ Len(document) = 2
    /\ Len(batch.automations) = 2
    /\ ~batch.automations[1].validation_failed
    /\ batch.automations[2].validation_failed

\* C8: the entities of a batch result appear in the relative order of their
\* source entries in the document, whatever order the tasks completed in.
C8_BatchOrderPreserved ==
    batch.kind = "return" =>
        \E f \in [1..Len(batch.automations) -> TaskIds] :
            /\ \A k \in 1..Len(batch.automations) :
                  /\ ReturnedEntity(f[k])
                  /\ batch.automations[k] = tasks[f[k]].result.entity
            /\ \A j, k \in 1..Len(batch.automations) : j < k => f[j] < f[k]

\* A batch of two different rules returned although the task of the second
\* rule completed before the task of the first.
C8_Witness ==
    /\ batch.kind = "return"
    /\ Len(batch.automations) = 2
    /\ batch.automations[1] # batch.automations[2]
    /\ finished = <<2, 1>>

\* C9: for a blueprint reference whose fetch fails, strict validation
\* raises the fetch error, and lenient validation returns an entity flagged
\* validation_failed with raw_blueprint_inputs = none.
C9_FetchFailure ==
    \A i \in TaskIds :
        (Ended(i) /\ "blueprint_fetch" \in FailedStages(i)) =>
            IF mode = "strict"
            THEN /\ tasks[i].result.kind = "raise"
                 /\ tasks[i].result.exc = "BlueprintException"
            ELSE /\ ReturnedEntity(i)
                 /\ tasks[i].result.entity.validation_failed
                 /\ tasks[i].result.entity.raw_blueprint_inputs = None

\* C10: for a blueprint reference that is fetched but whose substitution
\* fails with an undefined input, lenient validation returns an entity
\* flagged validation_failed whose raw_blueprint_inputs is the snapshot
\* config_with_inputs taken before the substitution.
C10_UndefinedSubstitution ==
    mode = "batch" =>
        \A i \in TaskIds :
            (Ended(i) /\ "substitution" \in FailedStages(i)) =>
                /\ ReturnedEntity(i)
                /\ tasks[i].result.entity.validation_failed
                /\ tasks[i].result.entity.raw_blueprint_inputs =
                      async_inputs_from_config(document[i]).config_with_inputs

--------------------------------------------------------------------------
\* C11: batch validation returns a new document in which every top-level
\* entry outside the automation domain is unchanged and the entries of the
\* domain are replaced by the one validated sequence under the automation
\* key; no step changes the document the caller passed.
C11_NewDocumentFrame ==
    [][/\ input_config' = input_config
       /\ batch'.kind = "return" =>
             /\ DOMAIN batch'.config =
                   (DOMAIN input_config \ extract_domain_configs(input_config, AUTOMATION_DOMAIN))
                       \cup {AUTOMATION_DOMAIN}
             /\ \A k \in DOMAIN batch'.config \ {AUTOMATION_DOMAIN} :
                   batch'.config[k] = input_config[k]
             /\ batch'.config[AUTOMATION_DOMAIN] = batch'.automations
             /\ config_per_platform(input_config, AUTOMATION_DOMAIN) = document]_vars

\* A batch returned for a document that keeps a rule under a second key of
\* the domain, beside the entries of another integration.
C11_Witness ==
    /\ batch.kind = "return"
    /\ "automation 2" \in DOMAIN input_config
    /\ "light" \in DOMAIN batch.config
    /\ Len(batch.config[AUTOMATION_DOMAIN]) = 2

--------------------------------------------------------------------------
\* A whole validation of rule under policy m in which every collaborator
\* succeeds and the blueprint store holds body: the task after its last
\* step.
Revalidate(rule, m, body) ==
    LET t0 == StartItem(NewTask(rule), m, TRUE)
        t1 == IF t0.pc = "await_blueprint"
              THEN ResumeBlueprint(t0, m, "", [exc |-> "", body |-> body], TRUE)
              ELSE t0
        t2 == IF t1.pc = "await_trigger"
              THEN validate_config_sections(t1, m, CONF_TRIGGER, "")
              ELSE t1
        t3 == IF t2.pc = "await_condition"
              THEN validate_config_sections(t2, m, CONF_CONDITION, "")
              ELSE t2
    IN IF t3.pc = "await_action"
       THEN validate_config_sections(t3, m, CONF_ACTION, "")
       ELSE t3

\* The trigger, condition and action content of an entity.
SectionContent(entity) ==
    [k \in Sections \cap DOMAIN entity.m |-> entity.m[k]]

Succeeded(i) ==
    /\ Ended(i)
    /\ ReturnedEntity(i)
    /\ ~tasks[i].result.entity.validation_failed

--------------------------------------------------------------------------
\* Vocabulary of the stage properties

SectionValidators == {ValidatorOf(k) : k \in Sections}

IsSectionValidator(name) == name \in SectionValidators

\* The section validators task i has invoked, in the order of the calls.
SectionCalls(i) == SelectSeq(tasks[i].calls, IsSectionValidator)

\* The validators of a structurally validated rule, in the order of lines
\* 205-237.
ValidatorsInOrder(validated_config) ==
    <<ValidatorOf(CONF_TRIGGER)>>
        \o (IF CONF_CONDITION \in Keys(validated_config)
            THEN <<ValidatorOf(CONF_CONDITION)>> ELSE <<>>)
        \o <<ValidatorOf(CONF_ACTION)>>

IsPrefix(s, t) == Len(s) <= Len(t) /\ SubSeq(t, 1, Len(s)) = s

\* The failures of task i that are failures of a section validator.
SectionFailures(i) ==
    SelectSeq(tasks[i].failures, LAMBDA f : f.stage \in Sections)

\* C13: the section validators run in the order trigger, condition, action
\* and short-circuit: under the lenient policy the failure of a validator
\* flags the entity and returns it at once, and no later validator is
\* invoked for the rule.
C13_SectionsShortCircuit ==
    \A i \in TaskIds :
        /\ IsPrefix(SectionCalls(i), ValidatorsInOrder(tasks[i].validated_config))
        /\ SectionCalls(i) # <<>> => tasks[i].validated_config # None
        /\ (mode = "batch" /\ SectionFailures(i) # <<>>) =>
              /\ Len(SectionFailures(i)) = 1
              /\ Ended(i)
              /\ ReturnedEntity(i)
              /\ tasks[i].result.entity.validation_failed
              /\ SectionCalls(i)[Len(SectionCalls(i))] =
                    ValidatorOf(SectionFailures(i)[1].stage)

\* A lenient task whose trigger validator failed on a rule with a condition
\* ended having invoked the trigger validator alone.
C13_Witness ==
    /\ mode = "batch"
    /\ \E i \in TaskIds :
          /\ Ended(i)
          /\ CONF_CONDITION \in Keys(tasks[i].validated_config)
          /\ SectionFailures(i) = <<Failure(CONF_TRIGGER, "Invalid")>>
          /\ SectionCalls(i) = <<ValidatorOf(CONF_TRIGGER)>>
          /\ tasks[i].result.entity.validation_failed

\* The stages of handle_blueprint.
BlueprintStages == {"blueprint_fetch", "substitution"}

\* Task i has handed its rule to PLATFORM_SCHEMA (line 96).
SchemaAttempted(i) ==
    tasks[i].validated_config # None \/ "schema" \in FailedStages(i)

\* C14: under the lenient policy a failed blueprint fetch or substitution
\* ends the validation of the rule: the minimal entity is returned, the
\* structural schema and the section validators are not attempted, and the
\* blueprint diagnostic is the only one logged for the rule.
C14_BlueprintFailureShortCircuits ==
    mode = "batch" =>
        \A i \in TaskIds :
            (Ended(i) /\ FailedStages(i) \cap BlueprintStages # {}) =>
                /\ ReturnedEntity(i)
                /\ tasks[i].result.entity.validation_failed
                /\ DOMAIN tasks[i].result.entity.m \subseteq MinimalKeys
                /\ ~SchemaAttempted(i)
                /\ SectionCalls(i) = <<>>
                /\ Len(tasks[i].failures) = 1
                /\ Len(tasks[i].log) = 1

\* C15: the rule handed to the structural schema (PLATFORM_SCHEMA) holds
\* no blueprint-reference key, whether blueprint resolution succeeded or
\* failed.
C15_SchemaInputIsResolved ==
    \A i \in TaskIds :
        SchemaAttempted(i) => ~is_blueprint_instance_config(tasks[i].config)

\* The stages whose failure is reported through warn_on_errors.
WarnedStages == BlueprintStages \cup {"schema"}

\* A failure of stage is logged under policy m.
IsLogged(stage, m) ==
    \/ stage \in Sections
    \/ stage \in WarnedStages /\ warn_on_errors(m)

\* The failures of task i that the policy of the run logs.
LoggedFailures(i) ==
    SelectSeq(tasks[i].failures, LAMBDA f : IsLogged(f.stage, mode))

\* C16: a blueprint or structural schema failure is logged only when
\* warn_on_errors is true, and a trigger, condition or action failure is
\* logged exactly once whatever the policy: the log of a rule holds one
\* entry per logged failure, so strict validation logs its section failure
\* and nothing for a blueprint or schema failure.
C16_LoggingAsymmetry ==
    \A i \in TaskIds :
        /\ Len(tasks[i].log) = Len(LoggedFailures(i))
        /\ \A k \in 1..Len(tasks[i].log) :
              LoggedFailures(i)[k].stage \in Sections =>
                  tasks[i].log[k] = LogEntry(tasks[i].automation_name,
                                             Problem(LoggedFailures(i)[k].stage))
        /\ mode = "strict" =>
              /\ FailedStages(i) \cap WarnedStages # {} => tasks[i].log = <<>>
              /\ SectionFailures(i) # <<>> => Len(tasks[i].log) = 1

\* A strict validation ended by a failed section validator logged its one
\* diagnostic before raising.
C16_Witness ==
    /\ mode = "strict"
    /\ \E i \in TaskIds :
          /\ Ended(i)
          /\ tasks[i].result.kind = "raise"
          /\ SectionFailures(i) # <<>>
          /\ Len(tasks[i].log) = 1

\* The sections of an entity that do not hold the output of their validator.
RawSections(entity) ==
    {k \in Sections \cap DOMAIN entity.m : entity.m[k].stage # "validated"}

\* C17: an entity returned with validation_failed = false went through
\* every stage without a failure and holds validator outputs in trigger,
\* action and any present condition; an entity that still carries a section
\* no validator has replaced is flagged validation_failed.
C17_UnflaggedEntityIsValidated ==
    \A i \in TaskIds :
        ReturnedEntity(i) =>
            LET e == tasks[i].result.entity
            IN /\ ~e.validation_failed =>
                     /\ tasks[i].failures = <<>>
                     /\ tasks[i].validated_config # None
                     /\ SectionCalls(i) = ValidatorsInOrder(tasks[i].validated_config)
                     /\ {CONF_TRIGGER, CONF_ACTION} \subseteq DOMAIN e.m
                     /\ \A k \in Sections \cap DOMAIN e.m :
                           e.m[k] = Validated(tasks[i].validated_config.m[k])
                     /\ is_blueprint_instance_config(document[i]) =>
                           e.raw_blueprint_inputs # None
               /\ RawSections(e) # {} => e.validation_failed

\* Two rules of one lenient batch: one returned flagged with its action
\* still as the structural schema left it, the other returned unflagged
\* with a validated condition.
C17_Witness ==
    /\ mode = "batch"
    /\ \E i, j \in TaskIds :
          /\ ReturnedEntity(i)
          /\ tasks[i].result.entity.validation_failed
          /\ CONF_ACTION \in RawSections(tasks[i].result.entity)
          /\ ReturnedEntity(j)
          /\ ~tasks[j].result.entity.validation_failed
          /\ CONF_CONDITION \in DOMAIN tasks[j].result.entity.m
          /\ RawSections(tasks[j].result.entity) = {}

\* Task i has invoked the condition validator.
ConditionValidatorCalled(i) ==
    \E k \in 1..Len(tasks[i].calls) :
        tasks[i].calls[k] = ValidatorOf(CONF_CONDITION)

\* C18 as stated: once the validation of a structurally valid rule has
\* ended, the condition validator has been invoked if and only if the
\* validated rule holds the condition key.
C18_ConditionValidatorIffKey ==
    \A i \in TaskIds :
        (Ended(i) /\ tasks[i].validated_config # None) =>
            (ConditionValidatorCalled(i) <=>
                CONF_CONDITION \in Keys(tasks[i].validated_config))

\* C18, amended: the condition validator is invoked only for a validated
\* rule that holds the condition key, and it is invoked for every such rule
\* whose trigger validator succeeded, as the call that follows the trigger
\* validator; a rule without a condition never reaches the condition
\* validator, goes from the trigger validator to the action validator, and
\* its entity has no condition key.
C18_ConditionValidatorAfterTrigger ==
    \A i \in TaskIds :
        tasks[i].validated_config # None =>
            LET has == CONF_CONDITION \in Keys(tasks[i].validated_config)
                sc == SectionCalls(i)
            IN /\ ConditionValidatorCalled(i) => has
               /\ (Ended(i) /\ CONF_TRIGGER \notin FailedStages(i)) => Len(sc) >= 2
               /\ Len(sc) >= 2 =>
                     sc[2] = IF has THEN ValidatorOf(CONF_CONDITION)
                             ELSE ValidatorOf(CONF_ACTION)
               /\ (~has /\ ReturnedEntity(i)) =>
                     CONF_CONDITION \notin DOMAIN tasks[i].result.entity.m

\* Two rules whose validation ended: one with a condition, validated after
\* its trigger, and one without, which went from trigger to action and
\* whose entity has no condition key.
C18_Witness ==
    \E i, j \in TaskIds :
        /\ Ended(i)
        /\ tasks[i].validated_config # None
        /\ CONF_CONDITION \in Keys(tasks[i].validated_config)
        /\ Len(SectionCalls(i)) >= 2
        /\ SectionCalls(i)[2] = ValidatorOf(CONF_CONDITION)
        /\ Ended(j)
        /\ ReturnedEntity(j)
        /\ tasks[j].validated_config # None
        /\ CONF_CONDITION \notin Keys(tasks[j].validated_config)
        /\ SectionCalls(j) = <<ValidatorOf(CONF_TRIGGER), ValidatorOf(CONF_ACTION)>>
        /\ CONF_CONDITION \notin DOMAIN tasks[j].result.entity.m

\* The calls of task i that reach the blueprint store or its inputs.
BlueprintCalls(i) ==
    SelectSeq(tasks[i].calls,
              LAMBDA c : c \in {"async_inputs_from_config", "async_substitute"})

\* Task i has run past handle_blueprint.
Started(i) == tasks[i].pc # "start"

\* C19: for an input that is no blueprint reference handle_blueprint is the
\* identity: the rule that goes on to the structural schema is the input,
\* uses_blueprint is false, raw_blueprint_inputs is none, the blueprint
\* store is never reached, and the returned entity's raw_blueprint_inputs
\* is none.
C19_NonBlueprintPassThrough ==
    \A i \in TaskIds :
        (Started(i) /\ ~is_blueprint_instance_config(document[i])) =>
            /\ tasks[i].config = document[i]
            /\ ~tasks[i].uses_blueprint
            /\ tasks[i].raw_blueprint_inputs = None
            /\ BlueprintCalls(i) = <<>>
            /\ ReturnedEntity(i) =>
                  tasks[i].result.entity.raw_blueprint_inputs = None

\* A rule that is no blueprint reference returned its entity, next to a
\* blueprint rule of the same run that did reach the blueprint store.
C19_Witness ==
    \E i, j \in TaskIds :
        /\ ~is_blueprint_instance_config(document[i])
        /\ ReturnedEntity(i)
        /\ ~tasks[i].uses_blueprint
        /\ tasks[i].result.entity.raw_blueprint_inputs = None
        /\ is_blueprint_instance_config(document[j])
        /\ tasks[j].uses_blueprint
        /\ BlueprintCalls(j) # <<>>

\* The snapshot line 87 takes of a rule input: the input itself when it is
\* a mapping, none when dict() could not copy it.
SnapshotOf(rule) == IF IsMapping(rule) THEN rule ELSE None

\* C20: raw_config is the snapshot of the rule input as the caller supplied
\* it, none when the input could not be copied: from the snapshot on, the
\* raw_config of the validation, of the entity under construction and of
\* the returned entity is that snapshot, for a blueprint rule the caller's
\* blueprint reference and not the substituted rule, and no later stage
\* changes it.
C20_RawConfigIsOriginalInput ==
    \A i \in TaskIds :
        /\ (Started(i) /\ "snapshot" \notin FailedStages(i)) =>
              tasks[i].raw_config = SnapshotOf(document[i])
        /\ tasks[i].validated_config # None =>
              tasks[i].automation_config.raw_config = SnapshotOf(document[i])
        /\ ReturnedEntity(i) =>
              tasks[i].result.entity.raw_config = SnapshotOf(document[i])

\* A blueprint rule returned its entity: raw_config is the caller's
\* blueprint reference, which is not the substituted rule the entity was
\* built from.
C20_Witness ==
    \E i \in TaskIds :
        /\ is_blueprint_instance_config(document[i])
        /\ ReturnedEntity(i)
        /\ tasks[i].result.entity.raw_config = document[i]
        /\ tasks[i].config # document[i]
        /\ CONF_USE_BLUEPRINT \in Keys(tasks[i].result.entity.raw_config)
        /\ CONF_USE_BLUEPRINT \notin DOMAIN tasks[i].result.entity.m

--------------------------------------------------------------------------
\* Termination of the batch

\* The event loop runs every task that is ready, every call to the blueprint
\* store and to a section validator returns or fails, and the coroutine
\* awaiting gather runs again once gather has its result or its exception.
Fairness ==
    /\ \A i \in 1..MaxRules :
          /\ WF_vars(i \in TaskIds /\ Start(i))
          /\ WF_vars(i \in TaskIds /\ BlueprintReturn(i))
          /\ WF_vars(i \in TaskIds /\ TriggerReturn(i))
          /\ WF_vars(i \in TaskIds /\ ConditionReturn(i))
          /\ WF_vars(i \in TaskIds /\ ActionReturn(i))
    /\ WF_vars(BatchRaise)
    /\ WF_vars(BatchReturn)

LiveSpec == Spec /\ Fairness

\* Task i resolved the way _try_async_validate_config_item resolves: to an
\* entity or to none.
Resolved(i) == tasks[i].result.kind \in {"entity", "none"}

\* C21: when every collaborator call eventually returns or fails, every
\* task of a batch eventually resolves to an entity or to none, and the
\* batch call eventually returns a document.
C21_BatchTerminates ==
    (mode = "batch") ~>
        (/\ \A i \in TaskIds : Resolved(i)
         /\ batch.kind = "return")

--------------------------------------------------------------------------
\* Independence of the tasks

\* The next step of task t when validated alone: the return of the
\* collaborator t awaits, with the outcome o holds for it.
StepAlone(t, m, o) ==
    CASE t.pc = "await_blueprint" ->
            ResumeBlueprint(t, m, o.fetch_exc, o.substitution, o.ext_ok)
      [] t.pc = "await_trigger" ->
            validate_config_sections(t, m, CONF_TRIGGER, o.trigger)
      [] t.pc = "await_condition" ->
            validate_config_sections(t, m, CONF_CONDITION, o.condition)
      [] t.pc = "await_action" ->
            validate_config_sections(t, m, CONF_ACTION, o.action)
      [] OTHER -> t

\* A whole validation of rule under policy m, alone, with the outcomes o of
\* the collaborators: the task after its last step, which is at most the
\* fourth return of a collaborator.
ValidateAlone(rule, m, o) ==
    StepAlone(StepAlone(StepAlone(StepAlone(
        StartItem(NewTask(rule), m, o.ext_ok), m, o), m, o), m, o), m, o)

\* The exception task t met at stage, "" when the stage did not fail.
ExcAt(t, stage) ==
    LET met == {t.failures[k] : k \in 1..Len(t.failures)}
    IN IF \E f \in met : f.stage = stage
       THEN (CHOOSE f \in met : f.stage = stage).exc
       ELSE ""

\* The blueprint bodies the store can have held for task t: a task that
\* never reached the substitution met none.
BodiesMet(t) ==
    IF t.uses_blueprint /\ ExcAt(t, "blueprint_fetch") = ""
                        /\ ExcAt(t, "substitution") = ""
    THEN BlueprintBodies ELSE {<<>>}

\* The outcomes of the collaborators task t met, with body for what the
\* blueprint store holds; the validators the structural schema calls
\* accepted the rule unless the schema failed.
OutcomesOf(t, body) ==
    [ext_ok |-> ExcAt(t, "schema") = "",
     fetch_exc |-> ExcAt(t, "blueprint_fetch"),
     substitution |-> IF ExcAt(t, "substitution") # ""
                      THEN [exc |-> ExcAt(t, "substitution"), body |-> <<>>]
                      ELSE [exc |-> "", body |-> body],
     trigger |-> ExcAt(t, CONF_TRIGGER),
     condition |-> ExcAt(t, CONF_CONDITION),
     action |-> ExcAt(t, CONF_ACTION)]

\* C22: the tasks of a batch share no state.  Whatever the interleaving, a
\* step of one task leaves every other task as it was, and the task that
\* ends ends with what the validation of its rule alone yields for the
\* collaborator outcomes it met: the same entity (mapping, raw_config,
\* raw_blueprint_inputs, validation_failed) or exception, and the same
\* record of calls, failures and diagnostics.
C22_InterleavingIndependence ==
    [][mode = "batch" =>
          /\ \A i, j \in TaskIds :
                (i # j /\ tasks'[i] # tasks[i]) => tasks'[j] = tasks[j]
          /\ \A i \in TaskIds :
                Ended(i) => tasks'[i] = tasks[i]
          /\ \A i \in TaskIds :
                (~Ended(i) /\ tasks'[i].pc = "done") =>
                    \E body \in BodiesMet(tasks'[i]) :
                        tasks'[i] = ValidateAlone(document[i], mode,
                                                  OutcomesOf(tasks'[i], body))]_vars

\* Two rules of one batch were validated interleaved: the second returned
\* its entity before the first, after each had been suspended at a
\* collaborator more than once, and one of them was flagged.
C22_Witness ==
    /\ mode = "batch"
    /\ finished = <<2, 1>>
    /\ \A i \in {1, 2} :
          /\ ReturnedEntity(i)
          /\ Len(tasks[i].calls) >= 2
    /\ tasks[1].result.entity.validation_failed
    /\ ~tasks[2].result.entity.validation_failed

--------------------------------------------------------------------------
\* The diagnostic name

\* The diagnostics of the schema stage and of the section stages.
NamedProblems ==
    {"could not be validated"} \cup {Problem(k) : k \in Sections}

\* The diagnostics task i logged at the schema and section stages.
NamedDiagnostics(i) ==
    SelectSeq(tasks[i].log, LAMBDA entry : entry.text \in NamedProblems)

\* C23: the diagnostic name of a rule is derived once from the raw input,
\* before blueprint resolution: from the alias of a mapping that has one
\* (also when it has an id), otherwise from its id, otherwise the generic
\* "Unnamed automation", which is also the name of an input that is no
\* mapping; every diagnostic of the schema and section stages carries it.
C23_DiagnosticName ==
    \A i \in TaskIds :
        (Started(i) /\ "snapshot" \notin FailedStages(i)) =>
            LET rule == document[i]
                name == tasks[i].automation_name
            IN /\ (IsMapping(rule) /\ CONF_ALIAS \in Keys(rule)) =>
                     name = [kind |-> "alias", v |-> rule.m[CONF_ALIAS].v]
               /\ (IsMapping(rule) /\ CONF_ALIAS \notin Keys(rule)
                                   /\ CONF_ID \in Keys(rule)) =>
                     name = [kind |-> "id", v |-> rule.m[CONF_ID].v]
               /\ (~IsMapping(rule) \/ Keys(rule) \cap {CONF_ALIAS, CONF_ID} = {}) =>
                     name = [kind |-> "unnamed", v |-> "Unnamed automation"]
               /\ \A k \in 1..Len(NamedDiagnostics(i)) :
                     NamedDiagnostics(i)[k].name = name

\* Two rules whose section validation failed: one with an id and an alias,
\* reported under its alias, and a blueprint reference without a name whose
\* blueprint brought an alias, still reported as unnamed.
C23_Witness ==
    \E i, j \in TaskIds :
        /\ {CONF_ID, CONF_ALIAS} \subseteq Keys(document[i])
        /\ SectionFailures(i) # <<>>
        /\ NamedDiagnostics(i) # <<>>
        /\ NamedDiagnostics(i)[1].name.kind = "alias"
        /\ is_blueprint_instance_config(document[j])
        /\ CONF_ALIAS \in Keys(tasks[j].config)
        /\ SectionFailures(j) # <<>>
        /\ NamedDiagnostics(j) # <<>>
        /\ NamedDiagnostics(j)[1].name.kind = "unnamed"

--------------------------------------------------------------------------
\* discord/notify.py: DiscordNotificationService.async_send_message
\*
\* The service object is created once (async_get_service) and every notify
\* call runs async_send_message on it as a coroutine of its own, so calls
\* can overlap at their awaits.  discord_bot is a field of the service
\* object: each read of self.discord_bot yields the client the latest call
\* stored there.

\* Largest number of overlapping notify calls.
MaxCalls == 2

\* Largest number of targets of a notify call.
MaxTargets == 2

\* Channel ids a caller can pass: one int() accepts and one it rejects.
ChannelIds == {"42", "lobby"}

IsInt(channelid) == channelid = "42"

TargetLists == UNION {[1..n -> ChannelIds] : n \in 0..MaxTargets}

\* The keyword arguments of a call: without ATTR_TARGET, or with a list of
\* channel ids.
Kwargs ==
    {[has_target |-> FALSE, target |-> <<>>]}
        \cup {[has_target |-> TRUE, target |-> t] : t \in TargetLists}

\* A nextcord.Client, with the number of times login and close ran on it.
NewClient == [logins |-> 0, closes |-> 0]

\* A call of async_send_message that has not run yet.  bot is the client
\* the pending await was issued on, logged the client the call logged in
\* (0 for none), closed the clients the call closed, pending the exception
\* the try statement is unwinding with.
NewCall(kwargs) ==
    [pc |-> "start",
     kwargs |-> kwargs,
     next |-> 1,
     bot |-> 0,
     logged |-> 0,
     closed |-> <<>>,
     delivered |-> 0,
     pending |-> "",
     log |-> <<>>,
     result |-> ""]

\* The call ends: it returns, or raises exc.
EndCall(call, exc) ==
    [call EXCEPT !.pc = "done",
                 !.pending = exc,
                 !.result = IF exc = "" THEN "return" ELSE "raise"]

\* Line 198: self.discord_bot is read and login awaited on that client.
BeginLogin(call, bot) == [call EXCEPT !.pc = "login", !.bot = bot]

\* Lines 206-208: the finally clause reads self.discord_bot and awaits
\* close on that client; exc is the exception that is propagating, "" for
\* none.
BeginClose(call, bot, exc) ==
    [call EXCEPT !.pc = "close", !.bot = bot, !.pending = exc]

\* The for statement of line 202 at target number call.next, up to the
\* await of fetch_channel (line 168) or, past the last target or when int()
\* raises ValueError, to the finally clause.
NextTarget(call, bot) ==
    IF call.next > Len(call.kwargs.target) THEN BeginClose(call, bot, "")
    ELSE IF ~IsInt(call.kwargs.target[call.next])
    THEN BeginClose(call, bot, "ValueError")
    ELSE [call EXCEPT !.pc = "fetch_channel", !.bot = bot]

\* What lines 204-208 do with an exception raised inside the try: an
\* HTTPException is logged and swallowed, anything else propagates; the
\* finally clause runs in both cases.
Unwind(call, bot, exc) ==
    IF exc = "HTTPException"
    THEN BeginClose([call EXCEPT !.log = Append(@, "Communication error")], bot, "")
    ELSE BeginClose(call, bot, exc)

\* The exceptions a request to Discord can end with, "" for success.
\* nextcord.NotFound is an HTTPException that fetch_channel and fetch_user
\* report for an unknown id; OSError stands for what is no HTTPException.
RequestOutcomes == {"", "NotFound", "HTTPException", "OSError"}

SetCall(c, call) ==
    /\ notify_calls' = [notify_calls EXCEPT ![c] = call]
    /\ UNCHANGED <<automation_vars, wiz_vars>>

\* Lines 179-198: the client is created and stored in the service object;
\* without a target the call returns, otherwise it goes on to the files
\* (suspended is whether _get_files_from_data has a file to wait for) and
\* to the login.
SendStart(c) ==
    /\ notify_calls[c].pc = "start"
    /\ clients' = Append(clients, NewClient)
    /\ discord_bot' = Len(clients) + 1
    /\ \E suspended \in BOOLEAN :
          SetCall(c,
              IF ~notify_calls[c].kwargs.has_target
              THEN EndCall([notify_calls[c] EXCEPT
                               !.log = Append(@, "No target specified")], "")
              ELSE IF suspended THEN [notify_calls[c] EXCEPT !.pc = "files"]
              ELSE BeginLogin(notify_calls[c], discord_bot'))

\* _get_files_from_data returns (line 195) or raises.
FilesReturn(c) ==
    /\ notify_calls[c].pc = "files"
    /\ \E exc \in {"", "OSError"} :
          SetCall(c, IF exc = "" THEN BeginLogin(notify_calls[c], discord_bot)
                     ELSE EndCall(notify_calls[c], exc))
    /\ UNCHANGED <<discord_bot, clients>>

\* login returns or raises (line 198); a login that raises is outside the
\* try statement.
LoginReturn(c) ==
    /\ notify_calls[c].pc = "login"
    /\ \E exc \in {"", "LoginFailure"} :
          IF exc = ""
          THEN /\ clients' = [clients EXCEPT ![notify_calls[c].bot].logins = @ + 1]
               /\ SetCall(c, NextTarget([notify_calls[c] EXCEPT
                                            !.logged = notify_calls[c].bot],
                                        discord_bot))
          ELSE /\ clients' = clients
               /\ SetCall(c, EndCall(notify_calls[c], exc))
    /\ UNCHANGED discord_bot

\* fetch_channel returns or raises (lines 168-171).
FetchChannelReturn(c) ==
    /\ notify_calls[c].pc = "fetch_channel"
    /\ \E exc \in RequestOutcomes :
          SetCall(c,
              IF exc = "" THEN [notify_calls[c] EXCEPT !.pc = "send"]
              ELSE IF exc = "NotFound"
              THEN [notify_calls[c] EXCEPT !.pc = "fetch_user", !.bot = discord_bot]
              ELSE Unwind(notify_calls[c], discord_bot, exc))
    /\ UNCHANGED <<discord_bot, clients>>

\* fetch_user returns or raises (lines 171-174).
FetchUserReturn(c) ==
    /\ notify_calls[c].pc = "fetch_user"
    /\ \E exc \in RequestOutcomes :
          SetCall(c,
              IF exc = "" THEN [notify_calls[c] EXCEPT !.pc = "send"]
              ELSE IF exc = "NotFound"
              THEN NextTarget([notify_calls[c] EXCEPT
                                  !.log = Append(@, "Channel not found"),
                                  !.next = @ + 1],
                              discord_bot)
              ELSE Unwind(notify_calls[c], discord_bot, exc))
    /\ UNCHANGED <<discord_bot, clients>>

\* channel.send returns or raises (line 175).
SendReturn(c) ==
    /\ notify_calls[c].pc = "send"
    /\ \E exc \in RequestOutcomes \ {"NotFound"} :
          SetCall(c,
              IF exc = ""
              THEN NextTarget([notify_calls[c] EXCEPT !.delivered = @ + 1,
                                                      !.next = @ + 1],
                              discord_bot)
              ELSE Unwind(notify_calls[c], discord_bot, exc))
    /\ UNCHANGED <<discord_bot, clients>>

\* close returns or raises (line 208), and the call ends.
CloseReturn(c) ==
    /\ notify_calls[c].pc = "close"
    /\ clients' = [clients EXCEPT ![notify_calls[c].bot].closes = @ + 1]
    /\ \E exc \in {"", "OSError"} :
          SetCall(c, EndCall([notify_calls[c] EXCEPT
                                 !.closed = Append(@, notify_calls[c].bot)],
                             IF exc # "" THEN exc ELSE notify_calls[c].pending))
    /\ UNCHANGED discord_bot

DiscordInit ==
    /\ AutomationIdle
    /\ WizIdle
    /\ discord_bot = 0
    /\ clients = <<>>
    /\ notify_calls \in UNION {[1..n -> {NewCall(kw) : kw \in Kwargs}] :
                                 n \in 1..MaxCalls}

DiscordNext ==
    \/ \E c \in 1..Len(notify_calls) : SendStart(c)
    \/ \E c \in 1..Len(notify_calls) : FilesReturn(c)
    \/ \E c \in 1..Len(notify_calls) : LoginReturn(c)
    \/ \E c \in 1..Len(notify_calls) : FetchChannelReturn(c)
    \/ \E c \in 1..Len(notify_calls) : FetchUserReturn(c)
    \/ \E c \in 1..Len(notify_calls) : SendReturn(c)
    \/ \E c \in 1..Len(notify_calls) : CloseReturn(c)

DiscordSpec == DiscordInit /\ [][DiscordNext]_vars

CallIds == 1..Len(notify_calls)

\* C24: a call of async_send_message that logged a client in has closed
\* that client, exactly once and nothing else, by the time it ends, whether
\* its sends succeeded, a target was not found or a send raised; a call
\* without a target ends without a login and without a send.
C24_LoginClosePairing ==
    \A c \in CallIds :
        notify_calls[c].pc = "done" =>
            /\ notify_calls[c].logged # 0 =>
                  /\ notify_calls[c].closed = <<notify_calls[c].logged>>
                  /\ clients[notify_calls[c].logged].closes >= 1
            /\ notify_calls[c].logged = 0 => notify_calls[c].closed = <<>>
            /\ ~notify_calls[c].kwargs.has_target =>
                  /\ notify_calls[c].logged = 0
                  /\ notify_calls[c].bot = 0
                  /\ notify_calls[c].delivered = 0
                  /\ notify_calls[c].result = "return"

--------------------------------------------------------------------------
\* wiz/config_flow.py: one config flow
\*
\* The flow manager calls the step of the flow's source first and then,
\* each time the user submits the form a step showed, the step that form
\* names; it awaits every step, so the steps of one flow do not overlap and
\* each action below is a whole step.

\* Largest number of forms the user submits in one flow.
MaxSubmits == 3

\* The bulbs on the network.
Devices ==
    {[ip_address |-> "10.0.0.1", mac_address |-> "a8bb50000001"],
     [ip_address |-> "10.0.0.2", mac_address |-> "a8bb50000002"]}

\* What the user can type into the host field; "" asks for discovery.
HostInputs == {""} \cup {d.ip_address : d \in Devices}

NoDevice == [ip_address |-> "", mac_address |-> ""]

\* ConfigFlow.__init__
NewFlow ==
    [_discovered_device |-> NoDevice,
     _discovered_devices |-> {},
     _name |-> <<>>,
     unique_id |-> ""]

\* .const.WIZ_EXCEPTIONS: the exceptions of a failed contact with a bulb.
WIZ_EXCEPTIONS ==
    {"OSError", "WizLightTimeOutError", "TimeoutError",
     "WizLightConnectionError", "ConnectionRefusedError"}

\* What a request to a bulb (getMac, get_bulbtype) can end with: "" for an
\* answer, a contact failure, or an exception of another kind.
BulbOutcomes == {""} \cup WIZ_EXCEPTIONS \cup {"WizLightNotKnownBulb"}

\* The reasons async_set_unique_id and _abort_if_unique_id_configured can
\* abort the flow with (AbortFlow), "" when they do not.
AbortReasons == {"", "already_in_progress", "already_configured"}

NoResult ==
    [type |-> "none", step_id |-> "", errors |-> <<>>, reason |-> "",
     host |-> "", title |-> <<>>, offered |-> {}]

async_show_form(step_id, errors, offered) ==
    [NoResult EXCEPT !.type = "form", !.step_id = step_id,
                     !.errors = errors, !.offered = offered]

async_create_entry(title, host) ==
    [NoResult EXCEPT !.type = "create_entry", !.title = title, !.host = host]

async_abort(reason) == [NoResult EXCEPT !.type = "abort", !.reason = reason]

\* The step let an exception through to the flow manager.
StepRaised(exc) == [NoResult EXCEPT !.type = "raise", !.reason = exc]

\* What a step leaves behind: the flow object, the result handed to the
\* flow manager, the requests a bulb answered, and the exception the
\* contact with the bulb ended with.
Outcome(f, result, answered, exc) ==
    [flow |-> f, result |-> result, answered |-> answered, exc |-> exc]

Answered(host, request) == [host |-> host, request |-> request]

\* async_step_discovery_confirm (lines 70-90); submitted is whether the
\* user confirmed (user_input is not None).
async_step_discovery_confirm(f, submitted, answered, exc) ==
    IF f._discovered_device = NoDevice \/ f._name = <<>>
    THEN Outcome(f, StepRaised("AssertionError"), answered, exc)
    ELSE IF submitted
    THEN Outcome(f, async_create_entry(f._name, f._discovered_device.ip_address),
                 answered, exc)
    ELSE Outcome(f, async_show_form("discovery_confirm", <<>>, {}), answered, exc)

\* async_step_dhcp / async_step_integration_discovery with
\* _async_handle_discovery (lines 37-68) for the discovered device.
_async_handle_discovery(f, device, abort_reason, exc) ==
    LET g == [f EXCEPT !._discovered_device = device,
                       !.unique_id = device.mac_address]
    IN IF abort_reason # "" THEN Outcome(g, async_abort(abort_reason), {}, "")
       ELSE IF exc \in WIZ_EXCEPTIONS
       THEN Outcome(g, async_abort("cannot_connect"), {}, exc)
       ELSE IF exc # "" THEN Outcome(g, StepRaised(exc), {}, exc)
       ELSE async_step_discovery_confirm(
               [g EXCEPT !._name = <<"bulbtype", device.mac_address>>],
               FALSE,
               {Answered(device.ip_address, "get_bulbtype")}, "")

\* async_step_pick_device without user input (lines 110-132): found is what
\* async_discover_devices returned, configured the devices that have an
\* entry already.
PickDeviceForm(f, found, configured) ==
    LET g == [f EXCEPT !._discovered_devices = found]
        devices_name == {d.mac_address : d \in found \ configured}
    IN IF devices_name = {}
       THEN Outcome(g, async_abort("no_devices_found"), {}, "")
       ELSE Outcome(g, async_show_form("pick_device", <<>>, devices_name), {}, "")

\* async_step_pick_device with the device the user picked (lines 96-108).
async_step_pick_device(f, picked, exc) ==
    LET device == CHOOSE d \in f._discovered_devices : d.mac_address = picked
        g == [f EXCEPT !.unique_id = device.mac_address]
    IN IF exc \in WIZ_EXCEPTIONS
       THEN Outcome(g, async_abort("cannot_connect"), {}, exc)
       ELSE IF exc # "" THEN Outcome(g, StepRaised(exc), {}, exc)
       ELSE Outcome(g, async_create_entry(<<"bulbtype", device.mac_address>>,
                                          device.ip_address),
                    {Answered(device.ip_address, "get_bulbtype")}, "")

\* The except clauses of lines 146-154 that leave the unexpected exceptions
\* unreported: the form is shown again without an error.
UserErrors_UnknownUnreported(exc) ==
    IF exc = "WizLightTimeOutError" THEN [base |-> "bulb_time_out"]
    ELSE IF exc = "ConnectionRefusedError" THEN [base |-> "cannot_connect"]
    ELSE IF exc = "WizLightConnectionError" THEN [base |-> "no_wiz_light"]
    ELSE <<>>

\* The except clauses of lines 146-154: the errors of the form for the
\* exception getMac or get_bulbtype raised.
UserErrors(exc) ==
    IF exc = "WizLightTimeOutError" THEN [base |-> "bulb_time_out"]
    ELSE IF exc = "ConnectionRefusedError" THEN [base |-> "cannot_connect"]
    ELSE IF exc = "WizLightConnectionError" THEN [base |-> "no_wiz_light"]
    ELSE [base |-> "unknown"]

\* The MAC address the bulb at host reports.
MacOf(host) == (CHOOSE d \in Devices : d.ip_address = host).mac_address

\* async_step_user with a host (lines 142-170): mac_exc and type_exc are the
\* outcomes of getMac and get_bulbtype.
async_step_user(f, host, mac_exc, type_exc, abort_reason) ==
    LET exc == IF mac_exc # "" THEN mac_exc ELSE type_exc
        answered == IF mac_exc # "" THEN {}
                    ELSE IF type_exc # "" THEN {Answered(host, "getMac")}
                    ELSE {Answered(host, "getMac"), Answered(host, "get_bulbtype")}
    IN IF exc # ""
       THEN Outcome(f, async_show_form("user", UserErrors(exc), {}), answered, exc)
       ELSE IF abort_reason = "already_configured"
       THEN Outcome([f EXCEPT !.unique_id = MacOf(host)],
                    async_abort(abort_reason), answered, "")
       ELSE Outcome([f EXCEPT !.unique_id = MacOf(host)],
                    async_create_entry(<<"bulbtype", MacOf(host)>>, host),
                    answered, "")

\* The flow manager takes the result of step: a form makes its step the
\* current one, anything else ends the flow.
Deliver(step, out) ==
    /\ flow' = out.flow
    /\ reached' = reached \cup out.answered
    /\ progress' = [progress EXCEPT
                       !.cur_step = IF out.result.type = "form"
                                    THEN out.result.step_id ELSE "done",
                       !.last_step = step,
                       !.last_exc = out.exc,
                       !.submits = @ + (IF progress.cur_step = "init" THEN 0 ELSE 1),
                       !.result = out.result]
    /\ UNCHANGED <<automation_vars, discord_vars>>

CanSubmit == progress.submits < MaxSubmits

\* The flow of a discovery starts: async_step_dhcp or
\* async_step_integration_discovery.
StepDiscovery ==
    /\ progress.cur_step = "init"
    /\ progress.source \in {"dhcp", "integration_discovery"}
    /\ \E device \in Devices, abort_reason \in AbortReasons, exc \in BulbOutcomes :
          Deliver(progress.source,
                  _async_handle_discovery(flow, device, abort_reason, exc))

\* The user confirms the discovered device.
StepDiscoveryConfirm ==
    /\ progress.cur_step = "discovery_confirm"
    /\ CanSubmit
    /\ Deliver("discovery_confirm",
               async_step_discovery_confirm(flow, TRUE, {}, ""))

\* The flow of a user starts: async_step_user without input shows the form
\* (lines 138-139, 166-170).
StepUserInit ==
    /\ progress.cur_step = "init"
    /\ progress.source = "user"
    /\ Deliver("user", Outcome(flow, async_show_form("user", <<>>, {}), {}, ""))

\* The user submits the host form with a host.
StepUser ==
    /\ progress.cur_step = "user"
    /\ CanSubmit
    /\ \E host \in HostInputs \ {""}, mac_exc \in BulbOutcomes,
          type_exc \in BulbOutcomes, abort_reason \in {"", "already_configured"} :
          Deliver("user", async_step_user(flow, host, mac_exc, type_exc, abort_reason))

\* The user submits the host form empty: async_step_user hands over to
\* async_step_pick_device (line 141), which discovers the devices.
StepUserDiscover ==
    /\ progress.cur_step = "user"
    /\ CanSubmit
    /\ \E found \in SUBSET Devices, configured \in SUBSET Devices :
          Deliver("user", PickDeviceForm(flow, found, configured))

\* The user picks one of the devices the form offers.
StepPickDevice ==
    /\ progress.cur_step = "pick_device"
    /\ CanSubmit
    /\ \E picked \in progress.result.offered, exc \in BulbOutcomes :
          Deliver("pick_device", async_step_pick_device(flow, picked, exc))

WizInit ==
    /\ AutomationIdle
    /\ DiscordIdle
    /\ flow = NewFlow
    /\ reached = {}
    /\ \E source \in {"user", "dhcp", "integration_discovery"} :
          progress = [source |-> source, cur_step |-> "init", last_step |-> "",
                      last_exc |-> "", submits |-> 0, result |-> NoResult]

WizNext ==
    \/ StepDiscovery
    \/ StepDiscoveryConfirm
    \/ StepUserInit
    \/ StepUser
    \/ StepUserDiscover
    \/ StepPickDevice

WizSpec == WizInit /\ [][WizNext]_vars

\* The base errors the host form can show.
BaseErrors == {"bulb_time_out", "cannot_connect", "no_wiz_light", "unknown"}

\* C25: the flow creates an entry only for a host whose bulb answered
\* get_bulbtype, and getMac too in the user step, earlier in the same flow;
\* in the user step an exception of the bulb shows the host form again with
\* exactly one base error and creates no entry; in the discovery and
\* pick_device steps a contact failure aborts the flow with cannot_connect.
C25_EntryOnlyForReachedDevice ==
    /\ progress.result.type = "create_entry" =>
          /\ Answered(progress.result.host, "get_bulbtype") \in reached
          /\ progress.last_step = "user" =>
                Answered(progress.result.host, "getMac") \in reached
          /\ progress.last_exc = ""
    /\ (progress.last_step = "user" /\ progress.last_exc # "") =>
          /\ progress.result.type = "form"
          /\ progress.result.step_id = "user"
          /\ DOMAIN progress.result.errors = {"base"}
          /\ progress.result.errors.base \in BaseErrors
    /\ (/\ progress.last_step \in {"dhcp", "integration_discovery", "pick_device"}
        /\ progress.last_exc \in WIZ_EXCEPTIONS) =>
          /\ progress.result.type = "abort"
          /\ progress.result.reason = "cannot_connect"

\* A user flow that showed the host form again after an exception of the
\* bulb and then created the entry for a host that answered both requests.
C25_Witness ==
    /\ progress.source = "user"
    /\ progress.submits >= 2
    /\ progress.result.type = "create_entry"
    /\ Answered(progress.result.host, "getMac") \in reached
    /\ Answered(progress.result.host, "get_bulbtype") \in reached

====
